---- MODULE Spec2Model ----
(***************************************************************************)
(* A model of kchinzei/dvarchiver: the rename/touch tool mv_datetime.py,   *)
(* the overlay/transcode tool render_datetime.py and the shared helpers of *)
(* _util.py.                                                               *)
(*                                                                         *)
(* A Python str is a sequence of one-character strings, so that the        *)
(* regular expressions of the code are matched character by character.     *)
(* Python's None is the value None below, which is no such sequence.       *)
(***************************************************************************)
EXTENDS Integers, Sequences, FiniteSets, TLC

VARIABLES
    tool,      \* which script runs: "mv" (mv_datetime.py) or "render" (render_datetime.py)
    args,      \* the parsed command line (argparse namespace), fixed for the batch
    file,      \* args.infiles[idx]: what the external tools answer for the current file
    idx,       \* position of main's for loop in file
    pc,        \* position inside the per-file function
    dt,        \* local dt of get_datetime / the resolved fields of render_datetime
    queried,   \* metadata fields asked of the external tools for the current file
    fs,        \* what has been done on disk for the current file
    ret,       \* per finished file: the return value of the per-file function
    exc,       \* the uncaught exception that ended the program, or "none"
    printed,   \* what the current file's processing has printed
    job,       \* render_datetime: the job being assembled
    run        \* render_datetime: the external encoder's runs for the current file

vars == <<tool, args, file, idx, pc, dt, queried, printed, fs, ret, exc, job, run>>

None == <<"None">>

----------------------------------------------------------------------------
(* Characters and strings                                                  *)

Digits == {"0", "1", "2", "3", "4", "5", "6", "7", "8", "9"}

DigitVal(c) ==
    CASE c = "0" -> 0 [] c = "1" -> 1 [] c = "2" -> 2 [] c = "3" -> 3
      [] c = "4" -> 4 [] c = "5" -> 5 [] c = "6" -> 6 [] c = "7" -> 7
      [] c = "8" -> 8 [] c = "9" -> 9

\* \d repeated n times at position i of s
IsDigits(s, i, n) ==
    /\ i + n - 1 <= Len(s)
    /\ \A k \in i..(i + n - 1) : s[k] \in Digits

\* int() of the n digits at position i of s
RECURSIVE IntAt(_, _, _)
IntAt(s, i, n) ==
    IF n = 0 THEN 0
    ELSE 10 * IntAt(s, i, n - 1) + DigitVal(s[i + n - 1])

CharAt(s, i, cs) == i <= Len(s) /\ s[i] \in cs

Whitespace == {" "}

\* str.strip()
RECURSIVE LStrip(_)
LStrip(s) ==
    IF s # <<>> /\ Head(s) \in Whitespace THEN LStrip(Tail(s)) ELSE s

RECURSIVE RStrip(_)
RStrip(s) ==
    IF s # <<>> /\ s[Len(s)] \in Whitespace
    THEN RStrip(SubSeq(s, 1, Len(s) - 1)) ELSE s

Strip(s) == RStrip(LStrip(s))

----------------------------------------------------------------------------
(* datetime.datetime and datetime.timedelta                                *)

IsLeap(y) == (y % 4 = 0) /\ ((y % 100 # 0) \/ (y % 400 = 0))

DaysInMonth(y, m) ==
    CASE m \in {1, 3, 5, 7, 8, 10, 12} -> 31
      [] m \in {4, 6, 9, 11} -> 30
      [] m = 2 -> IF IsLeap(y) THEN 29 ELSE 28

\* datetime(...) raises ValueError for a field out of range
ValidFields(y, mo, d, h, mi, s) ==
    /\ y \in 1..9999
    /\ mo \in 1..12
    /\ d >= 1 /\ d <= DaysInMonth(y, mo)
    /\ h \in 0..23
    /\ mi \in 0..59
    /\ s \in 0..59

DateTime(y, mo, d, h, mi, s) ==
    [year |-> y, month |-> mo, day |-> d, hour |-> h, minute |-> mi, second |-> s]

NoDateTime == DateTime(0, 0, 0, 0, 0, 0)

DaysBeforeYear(y) ==
    (y - 1) * 365 + ((y - 1) \div 4) - ((y - 1) \div 100) + ((y - 1) \div 400)

RECURSIVE DaysBeforeMonth(_, _)
DaysBeforeMonth(y, m) ==
    IF m = 1 THEN 0 ELSE DaysBeforeMonth(y, m - 1) + DaysInMonth(y, m - 1)

\* date.toordinal(): days since 0001-01-01, that day being 1
ToOrdinal(y, m, d) == DaysBeforeYear(y) + DaysBeforeMonth(y, m) + d

\* date.fromordinal()
YearOfOrdinal(n) ==
    CHOOSE y \in ((n \div 366) + 1)..((n \div 365) + 1) :
        DaysBeforeYear(y) < n /\ n <= DaysBeforeYear(y + 1)

MonthOfOrdinal(y, n) ==
    CHOOSE m \in 1..12 :
        /\ DaysBeforeYear(y) + DaysBeforeMonth(y, m) < n
        /\ n <= DaysBeforeYear(y) + DaysBeforeMonth(y, m) + DaysInMonth(y, m)

\* timedelta(hours, minutes, seconds), normalised to seconds
TimeDelta(h, mi, s) == h * 3600 + mi * 60 + s

\* datetime + timedelta of delta seconds (delta may be negative):
\* the ordinal day and the second of the day are carried separately
DateTimeAdd(d, delta) ==
    LET secs == d.hour * 3600 + d.minute * 60 + d.second + delta
        days == ToOrdinal(d.year, d.month, d.day) + (secs \div 86400)
        sod  == secs % 86400
        y    == YearOfOrdinal(days)
        m    == MonthOfOrdinal(y, days)
    IN  DateTime(y, m, days - DaysBeforeYear(y) - DaysBeforeMonth(y, m),
                 sod \div 3600, (sod % 3600) \div 60, sod % 60)

----------------------------------------------------------------------------
(* _util.py                                                                *)

\* The result of a call that may return None or raise
Value(d)   == [kind |-> "value", dt |-> d]
Nothing    == [kind |-> "None", dt |-> NoDateTime]
Raised(e)  == [kind |-> e, dt |-> NoDateTime]

DateSeps == {"-", "|", ":"}    \* the character class [-|:]

\* ^(\d\d\d\d)[-|:](\d\d)[-|:](\d\d)
MatchDate(s, seps) ==
    /\ IsDigits(s, 1, 4) /\ CharAt(s, 5, seps)
    /\ IsDigits(s, 6, 2) /\ CharAt(s, 8, seps)
    /\ IsDigits(s, 9, 2)

\* ( (\d\d):(\d\d) ...)? : the optional group, matched when it can be
MatchTime(s) ==
    /\ CharAt(s, 11, {" "}) /\ IsDigits(s, 12, 2)
    /\ CharAt(s, 14, {":"}) /\ IsDigits(s, 15, 2)

\* (:(\d\d))? inside the time group
MatchSeconds(s) ==
    MatchTime(s) /\ CharAt(s, 17, {":"}) /\ IsDigits(s, 18, 2)

\* a mutant: a missing time of day defaults to midnight
FieldsOf_Midnight(s) ==
    [year   |-> IntAt(s, 1, 4),
     month  |-> IntAt(s, 6, 2),
     day    |-> IntAt(s, 9, 2),
     hour   |-> IF MatchTime(s) THEN IntAt(s, 12, 2) ELSE 0,
     minute |-> IF MatchTime(s) THEN IntAt(s, 15, 2) ELSE 0,
     second |-> IF MatchSeconds(s) THEN IntAt(s, 18, 2) ELSE 0]

\* The fields after a match of the date pattern, with the defaults of the
\* code for the groups that did not take part: hour 12, minute 00, second 00
FieldsOf(s) ==
    [year   |-> IntAt(s, 1, 4),
     month  |-> IntAt(s, 6, 2),
     day    |-> IntAt(s, 9, 2),
     hour   |-> IF MatchTime(s) THEN IntAt(s, 12, 2) ELSE 12,
     minute |-> IF MatchTime(s) THEN IntAt(s, 15, 2) ELSE 0,
     second |-> IF MatchSeconds(s) THEN IntAt(s, 18, 2) ELSE 0]

\* datetime(int(year_s), ...) of the fields
Construct(f) ==
    IF ValidFields(f.year, f.month, f.day, f.hour, f.minute, f.second)
    THEN Value(f)
    ELSE Raised("ValueError")

get_datetime_fromstr(datetime_str) ==
    IF datetime_str = None THEN Raised("TypeError")    \* re.match(pattern, None)
    ELSE IF ~MatchDate(datetime_str, DateSeps) THEN Nothing
    ELSE Construct(FieldsOf(datetime_str))

Polarities == {"+", "|", "-"}    \* the character class [+|-]

\* re.fullmatch(r'([+|-]?)(0?\d):(\d\d)(:(\d\d))?', offset.strip()):
\* the match, as [ok, polarity, hh, mm, ss]
NoOffset == [ok |-> FALSE, polarity |-> "", hh |-> 0, mm |-> 0, ss |-> 0]

MatchOffset(offset) ==
    LET t    == Strip(offset)
        sign == CharAt(t, 1, Polarities)
        u    == IF sign THEN Tail(t) ELSE t
        \* (0?\d): a digit, or 0 and a digit
        hlen == IF CharAt(u, 1, {"0"}) /\ IsDigits(u, 2, 1) THEN 2
                ELSE IF IsDigits(u, 1, 1) THEN 1 ELSE 0
        short == Len(u) = hlen + 3
        long  == Len(u) = hlen + 6 /\ CharAt(u, hlen + 4, {":"})
                                   /\ IsDigits(u, hlen + 5, 2)
    IN  IF /\ hlen > 0
           /\ CharAt(u, hlen + 1, {":"})
           /\ IsDigits(u, hlen + 2, 2)
           /\ (short \/ long)
        THEN [ok |-> TRUE,
              polarity |-> IF sign THEN t[1] ELSE "",
              hh |-> IntAt(u, 1, hlen),
              mm |-> IntAt(u, hlen + 2, 2),
              ss |-> IF long THEN IntAt(u, hlen + 5, 2) ELSE 0]
        ELSE NoOffset

\* get_datetime_fromfile, lines 94-108: the offset applied to a found dt
ApplyOffset(d, offset) ==
    IF offset = None THEN d
    ELSE LET m == MatchOffset(offset)
             delta == TimeDelta(m.hh, m.mm, m.ss)
         IN  IF ~m.ok THEN d
             ELSE IF m.polarity = "-" THEN DateTimeAdd(d, 0 - delta)
             ELSE DateTimeAdd(d, delta)

----------------------------------------------------------------------------
(* The strings the inputs are drawn from                                   *)

\* date only
S_date == <<"2", "0", "2", "0", "-", "0", "1", "-", "0", "1">>
\* date, hour and minute
S_dash_hm == <<"2", "0", "2", "0", "-", "0", "1", "-", "0", "2", " ", "1", "0", ":", "3", "0">>
\* ':' as the date separator
S_colon_hm == <<"2", "0", "2", "0", ":", "0", "1", ":", "0", "1", " ", "1", "0", ":", "3", "0">>
\* matches the pattern, is no calendar date
S_badmonth == <<"2", "0", "2", "0", "-", "1", "3", "-", "0", "1">>
\* what mediainfo prints for Recorded_Date
S_rec == <<"2", "0", "0", "5", "-", "0", "7", "-", "0", "2", " ", "0", "9", ":", "4", "8", ":", "0", "6">>
\* a Recorded_Date with a zone prefix
S_utc == <<"U", "T", "C", " ", "2", "0", "0", "5", "-", "0", "7", "-", "0", "2", " ", "0", "9", ":", "4", "8", ":", "0", "6">>
\* an EXIF DateTimeOriginal
S_exif == <<"2", "0", "0", "5", ":", "0", "7", ":", "0", "3", " ", "0", "8", ":", "0", "0", ":", "0", "0">>
\* the DateTimeOriginal of a camera whose clock was never set
S_zero == <<"0", "0", "0", "0", ":", "0", "0", ":", "0", "0", " ", "0", "0", ":", "0", "0", ":", "0", "0">>
\* the DateTimeOriginal some cameras write for no date
S_blank == <<" ", " ", " ", " ", ":", " ", " ", ":", " ", " ", " ", " ", " ", ":", " ", " ", ":", " ", " ">>
O_minus9 == <<" ", "-", "9", ":", "0", "0">>    \* the example of the --offset help
O_nine == <<"9", ":", "0", "0">>    \* unsigned
O_plus == <<"+", "0", ":", "3", "0", ":", "1", "5">>    \* with seconds
O_minus10 == <<"-", "1", "0", ":", "0", "0">>    \* two-digit hours
V_yadif == <<"y", "a", "d", "i", "f", "=", "m", "o", "d", "e", "=", "s", "e", "n", "d", "_", "f", "r", "a", "m", "e">>
V_eq == <<"e", "q", "=", "g", "a", "m", "m", "a", "=", "1", ".", "3">>
V_scale == <<"s", "c", "a", "l", "e", "=", "w", "=", "i", "w", "/", "2", ":", "h", "=", "i", "h", "/", "2">>
V_crop == <<"c", "r", "o", "p", "=", "w", "=", "i", "w", "/", "2", ":", "e", "x", "a", "c", "t">>
V_text == <<"d", "r", "a", "w", "t", "e", "x", "t", "=", "t", "e", "x", "t", "=", "a", "=", "b">>    \* a value holding an '='
A_afftdn == <<"a", "f", "f", "t", "d", "n">>
A_volume == <<"v", "o", "l", "u", "m", "e", "=", "v", "o", "l", "u", "m", "e", "=", "2">>
E_codec == <<" ", "-", "c", ":", "v", " ", "l", "i", "b", "x", "2", "6", "4", " ", "-", "p", "r", "e", "s", "e", "t", " ", "f", "a", "s", "t">>
E_target == <<" ", "-", "t", "a", "r", "g", "e", "t", " ", "f", "i", "l", "m", "-", "d", "v", "d", " ", "-", "m", "e", "t", "a", "d", "a", "t", "a", " ", "a", "=", "b">>
K_metadata == <<"m", "e", "t", "a", "d", "a", "t", "a">>
K_target == <<"t", "a", "r", "g", "e", "t">>
K_text == <<"t", "e", "x", "t">>
K_x == <<"x">>
K_name == <<"n", "a", "m", "e">>
V_ntsc_dv == <<"n", "t", "s", "c", "-", "d", "v">>
V_creation_time == <<"c", "r", "e", "a", "t", "i", "o", "n", "_", "t", "i", "m", "e", "=">>
X_left == <<"w", "*", "0", ".", "0", "2">>
X_right == <<"(", "w", "-", "t", "w", ")", "-", "(", "w", "*", "0", ".", "0", "2", ")">>
Ext_dv == <<".", "d", "v">>
Ext_mov == <<".", "m", "o", "v">>
Opt_dv == <<"d", "v">>
Opt_mp4 == <<".", "m", "p", "4">>

True == <<"True">>    \* Python's True as a dict value

\* --datetime: '' by default
ExplicitStrs == {<<>>, S_date, S_dash_hm, S_colon_hm, S_badmonth}

\* mediainfo prints an empty line for a field the file does not have
RecordedDates == {<<>>, S_rec, S_utc}

\* get_exifdata returns None for a tag the file does not have
OriginalDates == {None, S_exif, S_zero, S_blank}

\* --offset: None by default
Offsets == {None, O_minus9, O_nine, O_plus, O_minus10}

MaxFiles == 2    \* the longest batch of input files

----------------------------------------------------------------------------
(* str and dict operations used by render_datetime.py                      *)

\* the first position of s holding a character of cs, or 0
IndexOf(s, cs) ==
    IF \E i \in 1..Len(s) : s[i] \in cs
    THEN CHOOSE i \in 1..Len(s) : s[i] \in cs /\ \A j \in 1..(i - 1) : s[j] \notin cs
    ELSE 0

\* str.split(c)
RECURSIVE Split(_, _)
Split(s, c) ==
    LET i == IndexOf(s, {c})
    IN  IF i = 0 THEN <<s>>
        ELSE <<SubSeq(s, 1, i - 1)>> \o Split(SubSeq(s, i + 1, Len(s)), c)

\* str.split(c, 1)
SplitOnce(s, c) ==
    LET i == IndexOf(s, {c})
    IN  IF i = 0 THEN <<s>>
        ELSE <<SubSeq(s, 1, i - 1), SubSeq(s, i + 1, Len(s))>>

\* str.split(): on runs of whitespace, no empty pieces
RECURSIVE SplitWords(_)
SplitWords(s) ==
    LET t == LStrip(s)
        i == IndexOf(t, Whitespace)
    IN  IF t = <<>> THEN <<>>
        ELSE IF i = 0 THEN <<t>>
        ELSE <<SubSeq(t, 1, i - 1)>> \o SplitWords(SubSeq(t, i, Len(t)))

StartsWith(s, c) == s # <<>> /\ Head(s) = c

\* a dict: a function from its keys to their values
EmptyDict == [k \in {} |-> None]

\* a | b, and a |= b
Merge(a, b) ==
    [k \in (DOMAIN a) \cup (DOMAIN b) |-> IF k \in DOMAIN b THEN b[k] ELSE a[k]]

Item(k, v) == [x \in {k} |-> v]

\* dict.pop(k): the dict without k
Without(d, k) == [x \in (DOMAIN d) \ {k} |-> d[x]]

\* parse_string_to_dict, lines 93-100: the loop over the words from word i on
RECURSIVE EncodePairs(_, _, _)
EncodePairs(pairs, i, parsed_dict) ==
    IF i > Len(pairs) THEN parsed_dict
    ELSE IF StartsWith(pairs[i], "-")
    THEN LET key   == Tail(pairs[i])
             value == IF i + 1 <= Len(pairs) /\ ~StartsWith(pairs[i + 1], "-")
                      THEN pairs[i + 1] ELSE True
         IN  EncodePairs(pairs, i + 1, Merge(parsed_dict, Item(key, value)))
    ELSE EncodePairs(pairs, i + 1, parsed_dict)

parse_string_to_dict(input_string) ==
    EncodePairs(SplitWords(input_string), 1, EmptyDict)

\* the result of a call that returns a dict or raises
Dict(d)      == [kind |-> "value", d |-> d]
DictRaised(e) == [kind |-> e, d |-> EmptyDict]

\* parse_filter_args_to_dict, lines 117-124: the loop over the pairs from i on
RECURSIVE FilterPairs(_, _, _)
FilterPairs(pairs, i, dictionary) ==
    IF i > Len(pairs) THEN Dict(dictionary)
    ELSE LET pair == Strip(pairs[i])
             kv   == Split(pair, "=")
         IN  IF IndexOf(pair, {"="}) # 0
             THEN IF Len(kv) # 2
                  THEN DictRaised("ValueError")    \* key, value = pair.split('=')
                  ELSE FilterPairs(pairs, i + 1,
                           Merge(dictionary, Item(Strip(kv[1]), Strip(kv[2]))))
             ELSE FilterPairs(pairs, i + 1, Merge(dictionary, Item(pair, True)))

parse_filter_args_to_dict(input_string) ==
    LET parts == SplitOnce(input_string, "=")
        dictionary == Item(K_name, Strip(parts[1]))
    IN  IF Len(parts) = 2
        THEN FilterPairs(Split(parts[2], ":"), 1, dictionary)
        ELSE Dict(dictionary)

----------------------------------------------------------------------------
(* ffmpeg-python streams: a stream is the sequence of its stages, the      *)
(* source first                                                            *)

Stage(op, src, name, kw) == [op |-> op, src |-> src, name |-> name, kw |-> kw]

\* ffmpeg.input(src)[sel]
InputStream(src, sel) == <<Stage("input", src, sel, EmptyDict)>>

\* ffmpeg.filter(stream, name, **kw)
Filter(stream, name, kw) == Append(stream, Stage("filter", "", name, kw))

\* ffmpeg.drawtext(stream, x=x, y=ypos, **kw)
DrawText(stream, x, kw) ==
    Append(stream, Stage("drawtext", "", <<>>, Merge(Item(K_x, x), kw)))

Stream(st)      == [kind |-> "value", stream |-> st]
StreamRaised(e) == [kind |-> e, stream |-> <<>>]

\* lines 297-304: the loop over args_vfilter from i on; each stage is built
\* on the stream the stage before it made
RECURSIVE VideoFilters(_, _, _)
VideoFilters(video, args_vfilter, i) ==
    IF i > Len(args_vfilter) THEN Stream(video)
    ELSE LET kwargs_filter == parse_filter_args_to_dict(args_vfilter[i])
         IN  IF kwargs_filter.kind # "value" THEN StreamRaised(kwargs_filter.kind)
             ELSE VideoFilters(
                      Filter(video, kwargs_filter.d[K_name],
                             Without(kwargs_filter.d, K_name)),
                      args_vfilter, i + 1)

\* lines 305-308
Overlays(video, show_date, show_time, kwargs_date, kwargs_time) ==
    LET dated == IF show_date THEN DrawText(video, X_left, kwargs_date) ELSE video
    IN  IF show_time THEN DrawText(dated, X_right, kwargs_time) ELSE dated

\* lines 309-313: the loop over args_afilter from i on; each pass assigns
\* to video the filter applied to audio
RECURSIVE AudioFilters(_, _, _, _)
AudioFilters(video, audio, args_afilter, i) ==
    IF i > Len(args_afilter) THEN Stream(video)
    ELSE LET kwargs_filter == parse_filter_args_to_dict(args_afilter[i])
         IN  IF kwargs_filter.kind # "value" THEN StreamRaised(kwargs_filter.kind)
             ELSE AudioFilters(
                      Filter(audio, kwargs_filter.d[K_name],
                             Without(kwargs_filter.d, K_name)),
                      audio, args_afilter, i + 1)

\* line 314: the audio stream given to ffmpeg.output
OutputAudio(audio, args_afilter) == audio

----------------------------------------------------------------------------
(* State shared by the two scripts                                         *)

Path(dir, stem, ext, isdir) == [dir |-> dir, stem |-> stem, ext |-> ext, isdir |-> isdir]

NoFs == [renamed |-> FALSE, mtime |-> Nothing, written |-> FALSE,
         tagged |-> FALSE, tmp_wav |-> "none"]

NoFile == [rec |-> <<>>, dto |-> None, input |-> Path("", "", <<>>, FALSE)]

NoJobFields ==
    [built |-> FALSE, assembled |-> FALSE, output |-> Path("", "", <<>>, FALSE),
     datetime_s |-> <<>>, kwargs_date |-> EmptyDict, kwargs_time |-> EmptyDict,
     kwargs_output |-> EmptyDict, video |-> <<>>, audio |-> <<>>]

NoRun == [bounce |-> "notrun", main |-> "notrun", retval |-> "0"]

\* the start of one iteration of main's for loop over args.infiles
BeginFile(f, first) ==
    /\ pc = "main"
    /\ idx < args.nfiles
    /\ idx' = idx + 1
    /\ file' = f
    /\ pc' = first
    /\ dt' = Nothing
    /\ queried' = {}
    /\ printed' = {}
    /\ fs' = NoFs
    /\ job' = NoJobFields
    /\ run' = NoRun
    /\ UNCHANGED <<tool, args, ret, exc>>

\* the per-file function returns r (None when it falls off its end):
\* main ignores the value and goes on to the next file
Return(r) ==
    /\ ret' = Append(ret, r)
    /\ pc' = "main"

\* an exception nobody catches ends the program with a traceback
Raise(e) ==
    /\ exc' = e
    /\ pc' = "crashed"

\* main, after the loop: return 0
MainExit ==
    /\ pc = "main"
    /\ idx = args.nfiles
    /\ pc' = "exit"
    /\ UNCHANGED <<tool, args, file, idx, dt, queried, printed, fs, ret, exc, job, run>>

----------------------------------------------------------------------------
(* mv_datetime.py                                                          *)

MvInit ==
    /\ tool = "mv"
    /\ args \in [datetime_opt : ExplicitStrs, offset : Offsets,
                  touch : BOOLEAN, simulate : BOOLEAN, nfiles : 1..MaxFiles]

MvFiles == [rec : RecordedDates, dto : OriginalDates, input : {NoFile.input}]

\* main, lines 131-139, and get_datetime, line 44
MvBegin ==
    /\ tool = "mv"
    /\ \E f \in MvFiles : BeginFile(f, "get_datetime")

\* a mutant: the offset is applied to the explicit timestamp as well
ExplicitResult_WithOffset(d, offset) == ApplyOffset(d, offset)

\* what get_datetime does with the parse of the explicit string:
\* a found dt is returned as it is, None sends it to the file
ExplicitResult(d, offset) == d

\* get_datetime, lines 45-46: "if dt is None" sends it to the file
AfterExplicit(r) == IF r.kind = "value" THEN "resolved" ELSE "fromfile"

\* get_datetime, lines 44-47
MvParseExplicit ==
    /\ pc = "get_datetime"
    /\ LET r == get_datetime_fromstr(args.datetime_opt)
       IN  IF r.kind \notin {"value", "None"}
           THEN dt' = r /\ Raise(r.kind)
           ELSE /\ dt' = IF r.kind = "value"
                         THEN Value(ExplicitResult(r.dt, args.offset)) ELSE r
                /\ pc' = AfterExplicit(r)
                /\ exc' = exc
    /\ UNCHANGED <<tool, args, file, idx, queried, printed, fs, ret, job, run>>

\* subprocess.run(..., check=True): the tool exits 0 or CalledProcessError
ToolExits == {"ok", "CalledProcessError"}

\* a mutant: the second tag is asked for whatever the first field gave
AfterPrimary_AlwaysSecondary(r) == "secondary"

\* get_datetime_fromfile, line 89: "if dt is None" asks for the second tag
AfterPrimary(r) == IF r.kind = "value" THEN "offset" ELSE "secondary"

\* get_datetime_fromfile, lines 92-93: "if dt is None: return None"
AfterSecondary(r) == IF r.kind = "value" THEN "offset" ELSE "resolved"

\* get_datetime_fromfile, lines 87-89
MvQueryPrimary ==
    /\ pc = "fromfile"
    /\ queried' = queried \cup {"primary"}
    /\ \E x \in ToolExits :
         IF x # "ok" THEN dt' = dt /\ Raise(x)
         ELSE LET r == get_datetime_fromstr(file.rec)
              IN  /\ dt' = r
                  /\ IF r.kind \notin {"value", "None"} THEN Raise(r.kind)
                     ELSE pc' = AfterPrimary(r) /\ exc' = exc
    /\ UNCHANGED <<tool, args, file, idx, printed, fs, ret, job, run>>

\* get_datetime_fromfile, lines 90-93
MvQuerySecondary ==
    /\ pc = "secondary"
    /\ queried' = queried \cup {"secondary"}
    /\ LET r == get_datetime_fromstr(file.dto)
       IN  /\ dt' = r
           /\ IF r.kind \notin {"value", "None"} THEN Raise(r.kind)
              ELSE pc' = AfterSecondary(r) /\ exc' = exc
    /\ UNCHANGED <<tool, args, file, idx, printed, fs, ret, job, run>>

\* get_datetime_fromfile, lines 94-108
MvApplyOffset ==
    /\ pc = "offset"
    /\ dt' = Value(ApplyOffset(dt.dt, args.offset))
    /\ pc' = "resolved"
    /\ UNCHANGED <<tool, args, file, idx, queried, printed, fs, ret, exc, job, run>>

\* mv_datetime and touch_datetime, "if dt is None": report and return 1
MvFail ==
    /\ pc = "resolved"
    /\ dt.kind = "None"
    /\ printed' = printed \cup {"Fail to get recorded date"}
    /\ Return("1")
    /\ UNCHANGED <<tool, args, file, idx, dt, queried, fs, exc, job, run>>

\* touch_datetime, lines 64-69
MvTouch ==
    /\ pc = "resolved"
    /\ dt.kind = "value"
    /\ args.touch
    /\ IF args.simulate
       THEN printed' = printed \cup {"os.utile"} /\ fs' = fs
       ELSE printed' = printed /\ fs' = [fs EXCEPT !.mtime = dt]
    /\ Return("None")
    /\ UNCHANGED <<tool, args, file, idx, dt, queried, exc, job, run>>

\* mv_datetime, lines 89-104
MvRename ==
    /\ pc = "resolved"
    /\ dt.kind = "value"
    /\ ~args.touch
    /\ IF args.simulate
       THEN printed' = printed \cup {"==>"} /\ fs' = fs
       ELSE printed' = printed /\ fs' = [fs EXCEPT !.renamed = TRUE, !.mtime = dt]
    /\ Return("None")
    /\ UNCHANGED <<tool, args, file, idx, dt, queried, exc, job, run>>

MvNext ==
    \/ MvBegin
    \/ MvParseExplicit
    \/ MvQueryPrimary
    \/ MvQuerySecondary
    \/ MvApplyOffset
    \/ MvFail
    \/ MvTouch
    \/ MvRename

----------------------------------------------------------------------------
(* render_datetime.py                                                      *)

\* os.path.join(output, os.path.basename(input)), output a directory
JoinBasename(output, input) == Path(output.stem, input.stem, input.ext, FALSE)

SamePath(a, b) == a.dir = b.dir /\ a.stem = b.stem /\ a.ext = b.ext

\* lines 163-165
PrepareOutput(input, output) ==
    IF output.isdir THEN JoinBasename(output, input) ELSE output

\* lines 250-254: the output path after the --ext override
OverrideExt(output, optext) ==
    IF optext = None THEN output
    ELSE [output EXCEPT !.ext = IF StartsWith(optext, ".") THEN optext
                                 ELSE <<".">> \o optext]

\* the groups of the --datetime pattern as strings, with the code's defaults
\* for the groups that did not take part (lines 176-187)
RenderFields(s) ==
    [year_s  |-> SubSeq(s, 1, 4),
     month_s |-> SubSeq(s, 6, 7),
     day_s   |-> SubSeq(s, 9, 10),
     hh_s    |-> IF MatchTime(s) THEN SubSeq(s, 12, 13) ELSE <<"1", "2">>,
     mm_s    |-> IF MatchTime(s) THEN SubSeq(s, 15, 16) ELSE <<"0", "0">>,
     ss_s    |-> IF MatchSeconds(s) THEN SubSeq(s, 18, 19) ELSE <<"0", "0">>]

NoFields == [year_s |-> <<>>, month_s |-> <<>>, day_s |-> <<>>,
             hh_s |-> <<>>, mm_s |-> <<>>, ss_s |-> <<>>]

\* lines 174-198: the date/time fields from --datetime, else from the
\* Recorded_Date mediainfo printed, which must hold all six
ResolveFields(datetime_opt, datetime_s) ==
    IF MatchDate(datetime_opt, {"-"})
    THEN [kind |-> "value", dt |-> RenderFields(datetime_opt)]
    ELSE IF MatchDate(datetime_s, {"-"}) /\ MatchSeconds(datetime_s)
    THEN [kind |-> "value", dt |-> RenderFields(datetime_s)]
    ELSE [kind |-> "None", dt |-> NoFields]

\* line 226: datetime(int(year_s), ...) of the string fields
FieldsToDateTime(f) ==
    Construct(DateTime(IntAt(f.year_s, 1, 4), IntAt(f.month_s, 1, 2),
                       IntAt(f.day_s, 1, 2), IntAt(f.hh_s, 1, 2),
                       IntAt(f.mm_s, 1, 2), IntAt(f.ss_s, 1, 2)))

DigitChar(n) == CHOOSE c \in Digits : DigitVal(c) = n

\* f'{n:0w}' for n of at most w digits
RECURSIVE Pad(_, _)
Pad(n, w) == IF w = 0 THEN <<>> ELSE Pad(n \div 10, w - 1) \o <<DigitChar(n % 10)>>

\* line 233, show_date: f'{year_s1}-{month_s1}-{day_s1}'
DateText(d) == Pad(d.year, 4) \o <<"-">> \o Pad(d.month, 2) \o <<"-">> \o Pad(d.day, 2)

\* line 234, show_time: f'{hh_s1}:{mm_s1}'
TimeText(d) == Pad(d.hour, 2) \o <<":">> \o Pad(d.minute, 2)

DefaultSecBegin == 1    \* sec_begin, --begin

\* line 247
DateTimeS(f) ==
    f.year_s \o <<"-">> \o f.month_s \o <<"-">> \o f.day_s \o <<" ">>
        \o f.hh_s \o <<":">> \o f.mm_s \o <<":">> \o f.ss_s

\* a mutant: the user's encode arguments are merged last, over the
\* creation time and the target
OutputKwargs_UserLast(args_encode, fileext, datetime_s) ==
    IF fileext = Ext_dv
    THEN Merge(Merge(Item(K_metadata, V_creation_time \o datetime_s \o <<"Z">>),
                     Item(K_target, V_ntsc_dv)),
               parse_string_to_dict(args_encode))
    ELSE Merge(Item(K_metadata, V_creation_time \o datetime_s),
               parse_string_to_dict(args_encode))

\* lines 266-270
OutputKwargs(args_encode, fileext, datetime_s) ==
    IF fileext = Ext_dv
    THEN Merge(parse_string_to_dict(args_encode),
               Merge(Item(K_metadata, V_creation_time \o datetime_s \o <<"Z">>),
                     Item(K_target, V_ntsc_dv)))
    ELSE Merge(parse_string_to_dict(args_encode),
               Item(K_metadata, V_creation_time \o datetime_s))

\* a mutant: the tags are copied whatever the encoder returned
CopyBackDue_Always(returncode, fileext) == TRUE

\* line 324: the tags are copied when the encoder returned 0
CopyBackDue(returncode, fileext) == returncode = "0"

ExitStatuses == {"0", "1"}    \* process.returncode: 0, or not

MaxFilters == 2    \* the most -vf and -af arguments together

SeqsUpTo(S, n) == UNION {[1..k -> S] : k \in 0..n}

VFilterArgs == {V_yadif, V_eq}
AFilterArgs == {A_afftdn, A_volume}
ParamFilterArgs == {V_scale, V_crop, V_text}   \* filters with parameters

OutDir   == Path("", "out", <<>>, TRUE)     \* an existing directory
InDir    == Path("", "in", <<>>, TRUE)      \* the directory of the inputs
OutFile  == Path("in", "a", Ext_mov, FALSE) \* a file path
Outputs  == {OutDir, InDir, OutFile}
OptExts  == {None, Opt_dv, Opt_mp4}
EncodeArgs == {<<>>, E_codec, E_target}
RenderInputs == {Path("in", "a", Ext_dv, FALSE), Path("in", "a", Ext_mov, FALSE)}
\* the files: those whose Recorded Date varies, and one with no Recorded Date
\* and a DateTimeOriginal
RenderFiles ==
    [rec : {<<>>, S_rec, S_dash_hm}, dto : {None}, input : RenderInputs]
    \cup
    [rec : {<<>>}, dto : {S_exif}, input : RenderInputs]

\* the command lines: those that vary the filters and the overlays, those
\* that vary the timestamp, the output and the encode arguments, and those
\* with one video filter that has parameters
RenderArgs ==
    {a \in [datetime_opt : {<<>>}, output : {OutDir}, optext : {None},
            show_date : BOOLEAN, show_time : BOOLEAN,
            args_vfilter : SeqsUpTo(VFilterArgs, MaxFilters),
            args_afilter : SeqsUpTo(AFilterArgs, MaxFilters),
            args_encode : {<<>>}, bug : BOOLEAN, simulate : BOOLEAN,
            nfiles : 1..MaxFiles] :
        Len(a.args_vfilter) + Len(a.args_afilter) <= MaxFilters}
    \cup
    [datetime_opt : ExplicitStrs, output : Outputs, optext : OptExts,
     show_date : {TRUE}, show_time : {TRUE},
     args_vfilter : {<<>>}, args_afilter : {<<>>},
     args_encode : EncodeArgs, bug : BOOLEAN, simulate : BOOLEAN,
     nfiles : 1..MaxFiles]
    \cup
    [datetime_opt : {<<>>}, output : {OutDir}, optext : {None},
     show_date : {FALSE}, show_time : {FALSE},
     args_vfilter : {<<v>> : v \in ParamFilterArgs}, args_afilter : {<<>>},
     args_encode : {<<>>}, bug : {FALSE}, simulate : BOOLEAN,
     nfiles : 1..MaxFiles]

RdInit ==
    /\ tool = "render"
    /\ args \in RenderArgs

\* main, lines 376-378
RdBegin ==
    /\ tool = "render"
    /\ \E f \in RenderFiles : BeginFile(f, "prepare")

\* lines 163-168
RdPrepare ==
    /\ pc = "prepare"
    /\ LET output == PrepareOutput(file.input, args.output)
       IN  IF SamePath(file.input, output)
           THEN /\ printed' = printed \cup {"Output will overwrite input"}
                /\ job' = job
                /\ Return("1")
           ELSE /\ printed' = printed
                /\ job' = [NoJobFields EXCEPT !.output = output]
                /\ pc' = "resolve"
                /\ ret' = ret
    /\ UNCHANGED <<tool, args, file, idx, dt, queried, fs, exc, run>>

\* lines 172-203
RdResolve ==
    /\ pc = "resolve"
    /\ queried' = queried \cup {"primary"}
    /\ \E x \in ToolExits :
         IF x # "ok"
         THEN /\ Raise(x)
              /\ UNCHANGED <<dt, printed, ret>>
         ELSE LET r == ResolveFields(args.datetime_opt, file.rec)
              IN  /\ dt' = r
                  /\ exc' = exc
                  /\ IF r.kind = "None"
                     THEN /\ printed' = printed \cup {"Fail to get recorded date"}
                          /\ Return("1")
                     ELSE /\ printed' = printed
                          /\ pc' = "build"
                          /\ ret' = ret
    /\ UNCHANGED <<tool, args, file, idx, fs, job, run>>

\* lines 205-270; the font, size, colour, position and enable window of
\* the overlays are left out
RdBuild ==
    /\ pc = "build"
    /\ LET d      == FieldsToDateTime(dt.dt)
           output == OverrideExt(job.output, args.optext)
           shown  == DateTimeAdd(d.dt, DefaultSecBegin)
           datetime_s == DateTimeS(dt.dt)
       IN  IF d.kind # "value"
           THEN Raise(d.kind) /\ job' = job
           ELSE /\ job' = [job EXCEPT
                       !.built = TRUE,
                       !.output = output,
                       !.datetime_s = datetime_s,
                       !.kwargs_date =
                           Item(K_text, IF args.show_date THEN DateText(shown) ELSE <<>>),
                       !.kwargs_time =
                           Item(K_text, IF args.show_time THEN TimeText(shown) ELSE <<>>),
                       !.kwargs_output =
                           OutputKwargs(args.args_encode, output.ext, datetime_s)]
                /\ pc' = "input"
                /\ exc' = exc
    /\ UNCHANGED <<tool, args, file, idx, dt, queried, printed, fs, ret, run>>

\* lines 274-294: the input streams, and with --bug the audio bounced
\* through a temporary wav file by a first run of the encoder
RdInput ==
    /\ pc = "input"
    /\ IF ~args.bug
       THEN /\ job' = [job EXCEPT !.video = InputStream("input", <<"v">>),
                                  !.audio = InputStream("input", <<"a", ":", "0">>)]
            /\ pc' = "chain"
            /\ UNCHANGED <<fs, run, exc>>
       ELSE \E x \in ToolExits, status \in ExitStatuses :
              IF x # "ok"
              THEN Raise(x) /\ UNCHANGED <<fs, run, job>>      \* mediainfo, line 284
              ELSE /\ fs' = [fs EXCEPT !.tmp_wav = "exists"]   \* mkstemp, line 286
                   /\ run' = [run EXCEPT !.bounce = status]
                   /\ IF status # "0"
                      THEN Raise("ffmpeg.Error") /\ job' = job    \* .run(), line 292
                      ELSE /\ job' = [job EXCEPT
                                  !.video = InputStream("input", <<"v">>),
                                  !.audio = InputStream("tmp_wav", <<"a">>)]
                           /\ pc' = "chain"
                           /\ exc' = exc
    /\ UNCHANGED <<tool, args, file, idx, dt, queried, printed, ret>>

\* lines 296-314
RdChain ==
    /\ pc = "chain"
    /\ LET filtered == VideoFilters(job.video, args.args_vfilter, 1)
           drawn    == Overlays(filtered.stream, args.show_date, args.show_time,
                                job.kwargs_date, job.kwargs_time)
           video    == AudioFilters(drawn, job.audio, args.args_afilter, 1)
       IN  IF filtered.kind # "value" THEN Raise(filtered.kind) /\ job' = job
           ELSE IF video.kind # "value" THEN Raise(video.kind) /\ job' = job
           ELSE /\ job' = [job EXCEPT !.assembled = TRUE,
                                      !.video = video.stream,
                                      !.audio = OutputAudio(job.audio, args.args_afilter)]
                /\ pc' = "execute"
                /\ exc' = exc
    /\ UNCHANGED <<tool, args, file, idx, dt, queried, printed, fs, ret, run>>

\* lines 318-320
RdSimulate ==
    /\ pc = "execute"
    /\ args.simulate
    /\ printed' = printed \cup {"ffmpeg command"}
    /\ pc' = "cleanup"
    /\ UNCHANGED <<tool, args, file, idx, dt, queried, fs, ret, exc, job, run>>

\* lines 322-323: the encoder runs and exits
RdExecute ==
    /\ pc = "execute"
    /\ ~args.simulate
    /\ \E status \in ExitStatuses :
         /\ run' = [run EXCEPT !.main = status]
         /\ fs' = [fs EXCEPT !.written = TRUE]
    /\ pc' = "finalize"
    /\ UNCHANGED <<tool, args, file, idx, dt, queried, printed, ret, exc, job>>

\* lines 324-328; copy_exifdata raises when exiftool fails
RdFinalize ==
    /\ pc = "finalize"
    /\ IF CopyBackDue(run.main, job.output.ext)
       THEN \E x \in {"ok", "ExifToolExecuteError"} :
              /\ fs' = [fs EXCEPT !.tagged = TRUE]
              /\ printed' = printed
              /\ IF x # "ok" THEN Raise(x) /\ run' = run
                 ELSE /\ run' = [run EXCEPT !.retval = run.main]
                      /\ pc' = "cleanup"
                      /\ exc' = exc
       ELSE /\ printed' = printed \cup {"stderr"}
            /\ run' = [run EXCEPT !.retval = run.main]
            /\ pc' = "cleanup"
            /\ UNCHANGED <<fs, exc>>
    /\ UNCHANGED <<tool, args, file, idx, dt, queried, ret, job>>

\* lines 329-331
RdCleanup ==
    /\ pc = "cleanup"
    /\ fs' = IF fs.tmp_wav = "exists" THEN [fs EXCEPT !.tmp_wav = "removed"] ELSE fs
    /\ Return(run.retval)
    /\ UNCHANGED <<tool, args, file, idx, dt, queried, printed, exc, job, run>>

RdNext ==
    \/ RdBegin
    \/ RdPrepare
    \/ RdResolve
    \/ RdBuild
    \/ RdInput
    \/ RdChain
    \/ RdSimulate
    \/ RdExecute
    \/ RdFinalize
    \/ RdCleanup

----------------------------------------------------------------------------
Init ==
    /\ MvInit \/ RdInit
    /\ file = NoFile
    /\ idx = 0
    /\ pc = "main"
    /\ dt = Nothing
    /\ queried = {}
    /\ printed = {}
    /\ fs = NoFs
    /\ ret = <<>>
    /\ exc = "none"
    /\ job = NoJobFields
    /\ run = NoRun

Next == MvNext \/ RdNext \/ MainExit

Spec == Init /\ [][Next]_vars

----------------------------------------------------------------------------
(* Properties of the timestamp resolution of mv_datetime.py               *)

Explicit  == get_datetime_fromstr(args.datetime_opt)
Primary   == get_datetime_fromstr(file.rec)
Secondary == get_datetime_fromstr(file.dto)

MvResolved == tool = "mv" /\ pc = "resolved"

\* the current file's processing is over: returned, or ended by an exception
FileOver == idx >= 1 /\ pc \in {"main", "exit", "crashed"}

\* C1: get_datetime resolves by a fixed precedence.  An explicit string that
\* parses gives the result and no metadata field is asked for; otherwise the
\* Recorded Date gives it when it parses; DateTimeOriginal is asked for only
\* when the Recorded Date was asked for and did not parse, and gives the
\* result then.
C1_Precedence ==
    tool = "mv" =>
        /\ "primary" \in queried => Explicit.kind = "None"
        /\ "secondary" \in queried =>
               "primary" \in queried /\ Explicit.kind = "None" /\ Primary.kind = "None"
        /\ pc = "resolved" =>
             /\ Explicit.kind = "value" => dt = Explicit /\ queried = {}
             /\ Explicit.kind # "value" /\ Primary.kind = "value" =>
                    /\ dt = Value(ApplyOffset(Primary.dt, args.offset))
                    /\ queried = {"primary"}
             /\ Explicit.kind # "value" /\ Primary.kind # "value"
                    /\ Secondary.kind = "value" =>
                    /\ dt = Value(ApplyOffset(Secondary.dt, args.offset))
                    /\ queried = {"primary", "secondary"}

\* C1 witness: the Recorded Date is unparsable and DateTimeOriginal decided
C1_Witness ==
    /\ MvResolved
    /\ file.rec = S_utc /\ file.dto = S_exif
    /\ "secondary" \in queried
    /\ dt.kind = "value"

\* C2: with no explicit datetime that parses and both fields absent from the
\* file, the file's processing ends in the reported failure (the message,
\* return 1) with the file neither renamed nor touched, and in no exception.
C2_AbsentFieldsReported ==
    (/\ tool = "mv"
     /\ FileOver
     /\ Explicit.kind = "None"
     /\ file.rec = <<>> /\ file.dto = None
     /\ exc # "CalledProcessError")
    => /\ exc = "none"
       /\ ret[idx] = "1"
       /\ "Fail to get recorded date" \in printed
       /\ ~fs.renamed
       /\ fs.mtime = Nothing

\* C3: an explicit datetime that parses is the resolved instant, with the
\* defaulted time parts, whatever offset is given.
C3_ExplicitIgnoresOffset ==
    MvResolved =>
        /\ Explicit.kind = "value" => dt = Explicit
        /\ args.datetime_opt = S_date =>
               dt = Value(DateTime(2020, 1, 1, 12, 0, 0))
        /\ args.datetime_opt = S_colon_hm =>
               dt = Value(DateTime(2020, 1, 1, 10, 30, 0))

\* C3 witness: an explicit date together with an offset that would shift it
C3_Witness ==
    /\ MvResolved
    /\ args.datetime_opt = S_date
    /\ args.offset = O_minus9
    /\ dt.kind = "value"

\* the documented form of an offset: [sign]hh:mm[:ss], hours of one or two
\* digits, spaces around it allowed
DocumentedOffset(offset) ==
    LET t    == Strip(offset)
        sign == CharAt(t, 1, {"+", "-"})
        u    == IF sign THEN Tail(t) ELSE t
        hlen == IF IsDigits(u, 1, 2) THEN 2 ELSE IF IsDigits(u, 1, 1) THEN 1 ELSE 0
        long == Len(u) = hlen + 6 /\ CharAt(u, hlen + 4, {":"}) /\ IsDigits(u, hlen + 5, 2)
    IN  IF /\ hlen > 0
           /\ CharAt(u, hlen + 1, {":"})
           /\ IsDigits(u, hlen + 2, 2)
           /\ (Len(u) = hlen + 3 \/ long)
        THEN [ok |-> TRUE,
              delta |-> (IF sign /\ t[1] = "-" THEN 0 - 1 ELSE 1)
                        * TimeDelta(IntAt(u, 1, hlen), IntAt(u, hlen + 2, 2),
                                    IF long THEN IntAt(u, hlen + 5, 2) ELSE 0)]
        ELSE [ok |-> FALSE, delta |-> 0]

\* the parse of the metadata field that decided a timestamp found in the file
FromField == IF "secondary" \in queried THEN Secondary ELSE Primary

\* C4: a timestamp found in a metadata field is shifted by exactly the
\* duration of every offset of the documented form [sign]hh:mm[:ss].
C4_OffsetShifts ==
    (/\ MvResolved
     /\ queried # {}
     /\ dt.kind = "value"
     /\ args.offset # None)
    => LET o == DocumentedOffset(args.offset)
       IN  o.ok => dt.dt = DateTimeAdd(FromField.dt, o.delta)

\* the string a just parsed dt came from: the explicit string, or the
\* metadata field before the offset is applied
MvParsed ==
    /\ tool = "mv"
    /\ dt.kind = "value"
    /\ \/ pc = "offset"
       \/ pc = "resolved" /\ queried = {}

MvSource ==
    IF queried = {} THEN args.datetime_opt
    ELSE IF "secondary" \in queried THEN file.dto ELSE file.rec

RdParsed == tool = "render" /\ pc = "build" /\ dt.kind = "value"

RdSource ==
    IF MatchDate(args.datetime_opt, {"-"}) THEN args.datetime_opt ELSE file.rec

\* C5: a parsed string without a time of day resolves to 12:00:00 on its
\* date, and one with HH:MM and no seconds to that hour and minute with
\* seconds 00, in get_datetime_fromstr and in render_datetime alike.
C5_TimeDefaults ==
    /\ MvParsed =>
         /\ ~MatchTime(MvSource) =>
                dt.dt.hour = 12 /\ dt.dt.minute = 0 /\ dt.dt.second = 0
         /\ MatchTime(MvSource) /\ ~MatchSeconds(MvSource) =>
                /\ dt.dt.hour = IntAt(MvSource, 12, 2)
                /\ dt.dt.minute = IntAt(MvSource, 15, 2)
                /\ dt.dt.second = 0
         /\ MvSource = S_date => dt.dt = DateTime(2020, 1, 1, 12, 0, 0)
    /\ RdParsed =>
         /\ ~MatchTime(RdSource) =>
                /\ dt.dt.hh_s = <<"1", "2">>
                /\ dt.dt.mm_s = <<"0", "0">>
                /\ dt.dt.ss_s = <<"0", "0">>
         /\ MatchTime(RdSource) /\ ~MatchSeconds(RdSource) =>
                /\ dt.dt.hh_s = SubSeq(RdSource, 12, 13)
                /\ dt.dt.mm_s = SubSeq(RdSource, 15, 16)
                /\ dt.dt.ss_s = <<"0", "0">>

\* C5 witness: a date-only explicit string parsed by get_datetime_fromstr
C5_Witness ==
    /\ MvParsed
    /\ MvSource = S_date
    /\ dt.dt.hour = 12

----------------------------------------------------------------------------
(* Properties of the job render_datetime assembles and runs               *)

Assembled == tool = "render" /\ job.assembled

\* the source streams of the job: the video of the input, and the audio of
\* the input or of the bounced wav file
SourceVideo == InputStream("input", <<"v">>)
SourceAudio ==
    IF args.bug THEN InputStream("tmp_wav", <<"a">>)
    ELSE InputStream("input", <<"a", ":", "0">>)

\* a stream passed through the filter stages of the arguments, in their order
Filtered(stream, argstrs) == VideoFilters(stream, argstrs, 1).stream

\* C6: the video stream handed to the output is the source video passed
\* through the user's video filters in the order given, then the date draw
\* (if show_date), then the time draw (if show_time).
C6_VideoChain ==
    Assembled =>
        job.video = Overlays(Filtered(SourceVideo, args.args_vfilter),
                             args.show_date, args.show_time,
                             job.kwargs_date, job.kwargs_time)

\* C7: the audio stream handed to the output is the source audio (the
\* bounced audio with --bug) passed through all the user's audio filters in
\* the order given.
C7_AudioChain ==
    Assembled => job.audio = Filtered(SourceAudio, args.args_afilter)

UserKwargs == parse_string_to_dict(args.args_encode)

Built == tool = "render" /\ job.built

CreationTime == V_creation_time \o DateTimeS(dt.dt)

\* C8 as claimed: a '.dv' output carries creation_time=<timestamp>Z and the
\* ntsc-dv target whatever the encode arguments say; any other extension
\* carries creation_time=<timestamp> without Z and no target at all.
C8_MetadataAsClaimed ==
    Built =>
        IF job.output.ext = Ext_dv
        THEN /\ job.kwargs_output[K_metadata] = CreationTime \o <<"Z">>
             /\ job.kwargs_output[K_target] = V_ntsc_dv
        ELSE /\ job.kwargs_output[K_metadata] = CreationTime
             /\ K_target \notin DOMAIN job.kwargs_output

\* C8, amended: for any other extension the job carries a target exactly
\* when the user's encode arguments name one, and then the user's.
C8_Metadata ==
    Built =>
        /\ IF job.output.ext = Ext_dv
           THEN /\ job.kwargs_output[K_metadata] = CreationTime \o <<"Z">>
                /\ job.kwargs_output[K_target] = V_ntsc_dv
           ELSE /\ job.kwargs_output[K_metadata] = CreationTime
                /\ K_target \in DOMAIN job.kwargs_output
                       <=> K_target \in DOMAIN UserKwargs
                /\ K_target \in DOMAIN UserKwargs =>
                       job.kwargs_output[K_target] = UserKwargs[K_target]
        /\ job.output.ext = OverrideExt(PrepareOutput(file.input, args.output),
                                        args.optext).ext
        /\ args.datetime_opt = S_date /\ args.optext = Opt_dv =>
               job.kwargs_output[K_metadata] =
                   V_creation_time \o S_date \o <<" ", "1", "2", ":", "0", "0", ":", "0", "0", "Z">>

\* C8 witness: a '.dv' output by --ext dv, with encode arguments that name a
\* target and a metadata of their own
C8_Witness ==
    /\ Built
    /\ args.optext = Opt_dv
    /\ job.output.ext = Ext_dv
    /\ args.args_encode = E_target

\* C9: the tags are never copied back to an output with the extension '.dv'.
C9_NoCopyBackToDv ==
    ~(tool = "render" /\ job.output.ext = Ext_dv /\ fs.tagged)

\* the encoder has exited and lines 324-328 have been passed
Finalized == run.main # "notrun" /\ pc # "finalize"

\* C10: for an output other than '.dv', not simulating: the tags are copied
\* only after the encoder has exited with 0, and always then; after another
\* exit status they are not copied and the encoder's stderr is printed;
\* the value render_datetime returns is the encoder's exit status.
C10_CopyBackOnSuccess ==
    (tool = "render" /\ ~args.simulate /\ job.output.ext # Ext_dv) =>
        /\ fs.tagged => run.main = "0"
        /\ "stderr" \in printed => run.main = "1"
        /\ Finalized =>
             /\ fs.tagged <=> run.main = "0"
             /\ "stderr" \in printed <=> run.main # "0"
        /\ run.main # "notrun" /\ pc \in {"main", "exit"} => ret[idx] = run.main

\* C10 witness: the encoder exited with 0, the tags were copied and
\* render_datetime returned 0
C10_Witness ==
    /\ tool = "render" /\ ~args.simulate /\ job.output.ext = Ext_mov
    /\ pc = "main"
    /\ run.main = "0"
    /\ fs.tagged
    /\ ret[idx] = "0"

----------------------------------------------------------------------------
(* Properties of the batch, of the output path and of simulate mode        *)

\* the exceptions of the failures of a file: the metadata tool or the encoder
\* failing, a filter argument that does not parse, a tag that is absent
FileFailures ==
    {"CalledProcessError", "ffmpeg.Error", "ValueError", "TypeError"}

\* C11: a failure while processing one file aborts that file only: the
\* program never ends on a failure with files of the batch left unprocessed.
C11_BatchContinues ==
    ~(pc = "crashed" /\ exc \in FileFailures /\ idx < args.nfiles)

\* C12: when the output path, after the output directory and the --ext
\* override, equals the input path, the file is aborted and the encoder is
\* never run on it.
C12_NeverOverwritesInput ==
    (tool = "render" /\ idx >= 1 /\ pc # "prepare"
         /\ SamePath(file.input,
                     OverrideExt(PrepareOutput(file.input, args.output), args.optext)))
    => /\ run.main = "notrun"
       /\ ~fs.written
       /\ pc \in {"main", "exit"} => ret[idx] = "1"

\* C13: in simulate mode the encoder is never run, no tag is written and no
\* file is created, renamed, touched or removed.
C13_SimulateTouchesNothing ==
    args.simulate =>
        /\ run.bounce = "notrun"
        /\ run.main = "notrun"
        /\ fs = NoFs

\* the chain step has acted on the current file: it assembled the job or it
\* raised
ChainRaised ==
    /\ tool = "render" /\ pc = "crashed"
    /\ job.built /\ job.video # <<>> /\ ~job.assembled

\* a parameter list read as the claim says: each ':' segment from i on split
\* on its first '=' into key and value, a segment without '=' recorded as
\* key with True
RECURSIVE SegmentsOnFirstEq(_, _, _)
SegmentsOnFirstEq(pairs, i, dictionary) ==
    IF i > Len(pairs) THEN dictionary
    ELSE LET kv == SplitOnce(Strip(pairs[i]), "=")
         IN  SegmentsOnFirstEq(pairs, i + 1,
                 Merge(dictionary,
                       IF Len(kv) = 2 THEN Item(Strip(kv[1]), Strip(kv[2]))
                       ELSE Item(Strip(kv[1]), True)))

\* the filter name, the text before the first '=', and the parameters
ParsedOnFirstEq(argstr) ==
    LET parts == SplitOnce(argstr, "=")
    IN  SegmentsOnFirstEq(IF Len(parts) = 2 THEN Split(parts[2], ":") ELSE <<>>,
                          1, Item(K_name, Strip(parts[1])))

\* C14: every filter argument is parsed into its name and one entry for each
\* ':' segment, split on the first '=' of the segment (the value keeping any
\* further '='), True standing for a missing value: the chain step never
\* fails on an argument and each filter stage of the job carries the name
\* and the parameters so parsed.
C14_ParsesOnFirstEq ==
    /\ ~(ChainRaised /\ exc = "ValueError")
    /\ (Assembled /\ args.args_afilter = <<>>) =>
         \A i \in 1..Len(args.args_vfilter) :
            LET d == ParsedOnFirstEq(args.args_vfilter[i])
            IN  /\ job.video[i + 1].name = d[K_name]
                /\ job.video[i + 1].kw = Without(d, K_name)

----------------------------------------------------------------------------
(* The resolution of render_datetime against get_datetime                  *)

\* what get_datetime gives with no offset for the option and the fields of
\* the current file: the explicit string, else the Recorded Date, else
\* DateTimeOriginal
SharedResolved ==
    IF Explicit.kind # "None" THEN Explicit
    ELSE IF Primary.kind # "None" THEN Primary
    ELSE Secondary

\* render_datetime has resolved the timestamp of the current file
RdResolved == tool = "render" /\ idx >= 1 /\ dt.kind = "value"

\* render_datetime has given the current file up for want of a timestamp
RdUnresolved ==
    /\ tool = "render" /\ idx >= 1 /\ dt.kind = "None"
    /\ "primary" \in queried /\ pc \in {"main", "exit"}

\* C15: render_datetime resolves the timestamp as get_datetime does with no
\* offset: the same instant, or both do not resolve.
C15_SameResolution ==
    /\ RdResolved =>
         LET r == FieldsToDateTime(dt.dt)
         IN  IF r.kind = "value" THEN SharedResolved = r
             ELSE SharedResolved.kind # "value"
    /\ RdUnresolved => SharedResolved.kind # "value"

====
